---- MODULE Spec2Model ----
(***************************************************************************)
(* The watermark job pipeline of app.py: the PENDING job store, the        *)
(* WAITING custom-opacity table, the temporary files in /tmp, and the      *)
(* aiogram handlers that act on them.  Every handler runs as its own       *)
(* asyncio task; a handler runs without interruption from one `await` to   *)
(* the next, so each action below is one such run-to-await segment.        *)
(* Usage/donation bookkeeping (USAGE, WALLETS) is left out: no job state   *)
(* depends on it.                                                          *)
(*                                                                         *)
(* Spec      one upload, any interleaving of its handlers                  *)
(* SpecPair  two uploads by two users, one suspending handler at a time    *)
(* SpecLoop  SpecPair without the clock, the render call and its return    *)
(*           as two steps of the event loop's thread                       *)
(* SpecCalls single calls of the pure helpers on drawn arguments           *)
(***************************************************************************)
EXTENDS Integers, Sequences, FiniteSets, TLC

\* ------------------------------------------------------------------ bounds
MaxJobs == 2        \* job ids a callback can name
MaxUploads == 1     \* media messages that Spec lets through the size check
MaxTasks == 2       \* handlers suspended at an await at the same time
MaxTicks == 1       \* clock advances
MaxPercent == 105   \* largest opacity handed to percent_to_alpha255

\* --------------------------------------------------------------- constants
JOB_TTL_SECS == 900
None == "None"
NoOpacity == -1

Users == {"alice", "bob"}
JobIds == 1..MaxJobs
Slots == 1..MaxTasks
MediaTypes == {"image", "video"}
WATERMARKS == {"white", "black"}
Positions == {"top", "mid", "bot"}
CuratedOpacity == {"40", "60", "80"}

\* What the environment sends: callback sections and values (valid and not),
\* and text messages as sequences of characters.
Callbacks == { <<"cancel", "">>, <<"logo", "white">>, <<"logo", "gold">>, <<"pos", "top">>,
               <<"pos", "left">>, <<"op", "40">>, <<"op", "custom">>, <<"op", "5">>, <<"undo", "">> }
Texts == { <<"h", "i">>, <<"9">>, <<"4", "0">>, <<"1", "0", "1">>, <<"0", "4", "0", "0">> }
TickSteps == {JOB_TTL_SECS, JOB_TTL_SECS + 1}

VARIABLES
    PENDING,    \* the job store: job id -> job dict
    WAITING,    \* user id -> job id awaiting a typed opacity
    files,      \* temporary files on disk: <<"src", job>> and <<"dst", slot>>
    now,        \* time.time(), in seconds
    ticks,      \* number of clock advances so far
    nextJob,    \* the next unused job id (uuid4 never repeats)
    tasks,      \* suspended handlers: slot -> [pc, user, job, type, msg]
    orphan,     \* job dicts popped from PENDING that a suspended
                \* process_and_send still holds in its local `job`
    renders,    \* job id -> number of calls of the render routine for it
    reply,      \* the message sent by the latest handler step ("" if none)
    call        \* one call of a pure helper: [fn, args, out], out = <<>> until
                \* it has returned; the handlers leave it alone

vars == <<PENDING, WAITING, files, now, ticks, nextJob, tasks, orphan, renders, reply, call>>

\* ----------------------------------------------------------------- helpers
Src(j) == <<"src", j>>
Dst(t) == <<"dst", t>>

Remove(f, k) == [x \in DOMAIN f \ {k} |-> f[x]]
Put(f, k, v) == [x \in DOMAIN f \cup {k} |-> IF x = k THEN v ELSE f[x]]

FreeSlots == Slots \ DOMAIN tasks
NewSlot == CHOOSE t \in FreeSlots : \A s \in FreeSlots : t <= s

\* The tasks that hold job j's dict in process_and_send's local `job`.
Holders(tk, j) ==
    {t \in DOMAIN tk : tk[t].job = j /\ tk[t].pc \in {"processing", "deliver", "report_ffmpeg", "report_error"}}

\* PENDING.pop(j) for the ids js of store P: the dicts leave the store; one
\* stays alive while a suspended process_and_send among tk refers to it.
PopStore(P, js) == [j \in DOMAIN P \ js |-> P[j]]
Orphans(P, tk, js) ==
    LET keep == {j \in (DOMAIN orphan \cup (js \cap DOMAIN P)) : Holders(tk, j) # {}}
    IN [j \in keep |-> IF j \in DOMAIN P THEN P[j] ELSE orphan[j]]

\* The dict a holder reads through its local `job`.
JobDict(j) == IF j \in DOMAIN PENDING THEN PENDING[j] ELSE orphan[j]

\* ------------------------------------------------------------ pure helpers
Digits == {"0", "1", "2", "3", "4", "5", "6", "7", "8", "9"}
DigitVal(c) ==
    CASE c = "0" -> 0 [] c = "1" -> 1 [] c = "2" -> 2 [] c = "3" -> 3 [] c = "4" -> 4
      [] c = "5" -> 5 [] c = "6" -> 6 [] c = "7" -> 7 [] c = "8" -> 8 [] c = "9" -> 9

\* re.search(r"(\d{1,3})", text): the leftmost run of digits, at most three
\* of them; <<>> when the text holds no digit.
FirstDigits(s) ==
    LET starts == {i \in 1..Len(s) : s[i] \in Digits}
    IN IF starts = {} THEN <<>>
       ELSE LET i == CHOOSE a \in starts : \A b \in starts : a <= b
                n == CHOOSE k \in 1..3 :
                        /\ \A d \in 0..(k - 1) : i + d <= Len(s) /\ s[i + d] \in Digits
                        /\ (k = 3 \/ i + k > Len(s) \/ s[i + k] \notin Digits)
            IN SubSeq(s, i, i + n - 1)

RECURSIVE int(_)
int(ds) == IF ds = <<>> THEN 0 ELSE 10 * int(SubSeq(ds, 1, Len(ds) - 1)) + DigitVal(ds[Len(ds)])

float(v) == CASE v = "40" -> 40 [] v = "60" -> 60 [] v = "80" -> 80

\* -------------------------------------------------------------------- Init
\* No helper call is under way.
NoCall == [fn |-> "", args |-> <<>>, out |-> <<>>]

Init ==
    /\ PENDING = <<>>
    /\ WAITING = <<>>
    /\ files = {}
    /\ now = 0
    /\ ticks = 0
    /\ nextJob = 1
    /\ tasks = <<>>
    /\ orphan = <<>>
    /\ renders = [j \in JobIds |-> 0]
    /\ reply = ""
    /\ call = NoCall

\* The clock advances between handler steps.
Tick ==
    /\ ticks < MaxTicks
    /\ \E d \in TickSteps : now' = now + d
    /\ ticks' = ticks + 1
    /\ UNCHANGED <<PENDING, WAITING, files, nextJob, tasks, orphan, renders, reply, call>>

\* ------------------------------------------------------- cleanup_old_jobs
\* The comparison made inclusive: a job aged exactly the TTL is stale too.
Stale_inclusive == {j \in DOMAIN PENDING : now - PENDING[j].ts >= JOB_TTL_SECS}

Stale == {j \in DOMAIN PENDING : now - PENDING[j].ts > JOB_TTL_SECS}

\* The store and the disk after cleanup_old_jobs().
cleanup_old_jobs_PENDING == [j \in DOMAIN PENDING \ Stale |-> PENDING[j]]
cleanup_old_jobs_files == files \ {Src(j) : j \in Stale}

\* ------------------------------------------------- handle_image / _video
\* Up to `await bot.get_file`: the sweep, the size check, the fresh names.
handle_upload(u, type, big) ==
    /\ PENDING' = cleanup_old_jobs_PENDING
    /\ files' = cleanup_old_jobs_files
    /\ orphan' = Orphans(PENDING, tasks, Stale)
    /\ IF big
       THEN /\ reply' = "too_large"
            /\ UNCHANGED <<tasks, nextJob>>
       ELSE /\ nextJob \in JobIds
            /\ FreeSlots # {}
            /\ tasks' = Put(tasks, NewSlot, [pc |-> "get_file", user |-> u, job |-> nextJob, type |-> type, msg |-> FALSE])
            /\ nextJob' = nextJob + 1
            /\ reply' = ""
    /\ UNCHANGED <<WAITING, now, ticks, call, renders>>

handle_image(u, big) == handle_upload(u, "image", big)
handle_video(u, big) == handle_upload(u, "video", big)

\* `await bot.download_file(..., destination=src)`: the file is written while
\* the handler is suspended.
download_file(t) ==
    /\ t \in DOMAIN tasks
    /\ tasks[t].pc = "get_file"
    /\ files' = files \cup {Src(tasks[t].job)}
    /\ tasks' = [tasks EXCEPT ![t].pc = "download_file"]
    /\ reply' = ""
    /\ UNCHANGED <<PENDING, WAITING, now, ticks, call, nextJob, orphan, renders>>

\* The download returns: PENDING[job_id] = {...}, then the logo keyboard.
create_job(t) ==
    /\ t \in DOMAIN tasks
    /\ tasks[t].pc = "download_file"
    /\ PENDING' = Put(PENDING, tasks[t].job,
                      [user_id |-> tasks[t].user, type |-> tasks[t].type, ts |-> now,
                       logo |-> None, pos |-> None, opacity |-> NoOpacity])
    /\ tasks' = Remove(tasks, t)
    /\ reply' = "choose_color"
    /\ UNCHANGED <<WAITING, files, now, ticks, call, nextJob, orphan, renders>>

\* --------------------------------------------------------- process_and_send
\* The first field process_and_send finds missing, in the order it tests them.
MissingField(jd) ==
    IF jd.logo = None THEN "pick_color"
    ELSE IF jd.pos = None THEN "pick_position"
    ELSE IF jd.opacity = NoOpacity THEN "pick_opacity"
    ELSE ""

\* What paste_watermark_pillow (image) or ffmpeg_overlay_video (video) can
\* end with: "ok", an exception ("error": the source cannot be opened or
\* decoded) or a non-zero exit of ffmpeg ("ffmpeg").
RenderOutcomes(type, hasSrc) ==
    IF type = "image"
    THEN (IF hasSrc THEN {"ok", "error"} ELSE {"error"})
    ELSE (IF hasSrc THEN {"ok", "ffmpeg"} ELSE {"ffmpeg"})

\* A `finally` that unlinks the source and pops the job but leaves the output.
Finally_keeps_output(t, j, P, r) ==
    /\ files' = files \ {Src(j)}
    /\ PENDING' = PopStore(P, {j})
    /\ tasks' = Remove(tasks, t)
    /\ orphan' = Orphans(P, Remove(tasks, t), {j})
    /\ reply' = r

\* A `finally` that empties the whole store (PENDING.clear()).
Finally_clears_store(t, j, P, r) ==
    /\ files' = files \ {Src(j), Dst(t)}
    /\ PENDING' = PopStore(P, DOMAIN P)
    /\ tasks' = Remove(tasks, t)
    /\ orphan' = Orphans(P, Remove(tasks, t), DOMAIN P)
    /\ reply' = r

\* The `finally` of process_and_send in slot t for job j, from store P.
Finally(t, j, P, r) ==
    /\ files' = files \ {Src(j), Dst(t)}
    /\ PENDING' = PopStore(P, {j})
    /\ tasks' = Remove(tasks, t)
    /\ orphan' = Orphans(P, Remove(tasks, t), {j})
    /\ reply' = r

\* The `try` of process_and_send up to its first await: the render routine
\* runs synchronously on dict jd, writing Dst(t); then the handler waits in
\* send_photo/send_video, or in the edit_text of an `except`, or (with no
\* message to edit) falls through to `finally`.
Render(t, j, jd, msg, u, P) ==
    /\ renders' = [renders EXCEPT ![j] = @ + 1]
    /\ \E o \in RenderOutcomes(jd.type, Src(j) \in files) :
          IF o = "ok"
          THEN /\ files' = files \cup {Dst(t)}
               /\ tasks' = Put(tasks, t, [pc |-> "deliver", user |-> u, job |-> j, type |-> None, msg |-> msg])
               /\ PENDING' = P
               /\ orphan' = orphan
               /\ reply' = ""
          ELSE IF msg
          THEN /\ \E part \in (IF o = "ffmpeg" THEN BOOLEAN ELSE {FALSE}) :
                     files' = IF part THEN files \cup {Dst(t)} ELSE files
               /\ tasks' = Put(tasks, t, [pc |-> IF o = "ffmpeg" THEN "report_ffmpeg" ELSE "report_error",
                                          user |-> u, job |-> j, type |-> None, msg |-> msg])
               /\ PENDING' = P
               /\ orphan' = orphan
               /\ reply' = ""
          ELSE Finally(t, j, P, "")

\* process_and_send called from on_job_callback, from its entry to the
\* await of edit_text("Processing...").
process_and_send(t) ==
    /\ t \in DOMAIN tasks
    /\ tasks[t].pc = "answer"
    /\ LET j == tasks[t].job
       IN IF j \notin DOMAIN PENDING
          THEN /\ reply' = "expired"
               /\ tasks' = Remove(tasks, t)
          ELSE IF MissingField(PENDING[j]) # ""
          THEN /\ reply' = MissingField(PENDING[j])
               /\ tasks' = Remove(tasks, t)
          ELSE /\ reply' = "processing"
               /\ tasks' = [tasks EXCEPT ![t].pc = "processing"]
    /\ UNCHANGED <<PENDING, WAITING, files, now, ticks, call, nextJob, orphan, renders>>

\* edit_text returned (or raised, which is swallowed): the render.
process_render(t) ==
    /\ t \in DOMAIN tasks
    /\ tasks[t].pc = "processing"
    /\ Render(t, tasks[t].job, JobDict(tasks[t].job), tasks[t].msg, tasks[t].user, PENDING)
    /\ UNCHANGED <<WAITING, now, ticks, call, nextJob>>

\* send_photo/send_video returned or raised.
process_deliver(t) ==
    /\ t \in DOMAIN tasks
    /\ tasks[t].pc = "deliver"
    /\ \E sent \in BOOLEAN :
          IF sent
          THEN Finally(t, tasks[t].job, PENDING, "watermarked")
          ELSE IF tasks[t].msg
          THEN /\ tasks' = [tasks EXCEPT ![t].pc = "report_error"]
               /\ reply' = ""
               /\ UNCHANGED <<PENDING, files, orphan>>
          ELSE Finally(t, tasks[t].job, PENDING, "")
    /\ UNCHANGED <<WAITING, now, ticks, call, nextJob, renders>>

\* The edit_text of an `except` clause, then `finally`.
process_report(t) ==
    /\ t \in DOMAIN tasks
    /\ tasks[t].pc \in {"report_ffmpeg", "report_error"}
    /\ Finally(t, tasks[t].job, PENDING,
               IF tasks[t].pc = "report_ffmpeg" THEN "ffmpeg_failed" ELSE "processing_error")
    /\ UNCHANGED <<WAITING, now, ticks, call, nextJob, renders>>

\* ---------------------------------------------------------- on_job_callback
\* The ownership test left out: every caller passes.
NotOwner_unchecked(u, jd) == FALSE

\* The ownership test with its comparison inverted (== for !=).
NotOwner_inverted(u, jd) == u = jd.user_id

\* `cb.from_user.id != job["user_id"]`
NotOwner(u, jd) == u # jd.user_id

on_job_callback(u, j, section, val) ==
    IF section = "cancel"
    THEN /\ PENDING' = PopStore(PENDING, {j})
         /\ files' = IF j \in DOMAIN PENDING THEN files \ {Src(j)} ELSE files
         /\ orphan' = Orphans(PENDING, tasks, {j})
         /\ reply' = "canceled"
         /\ UNCHANGED <<WAITING, now, ticks, call, nextJob, tasks, renders>>
    ELSE IF j \notin DOMAIN PENDING
    THEN /\ reply' = "expired"
         /\ UNCHANGED <<PENDING, WAITING, files, now, ticks, call, nextJob, tasks, orphan, renders>>
    ELSE IF NotOwner(u, PENDING[j])
    THEN /\ reply' = "not_your_job"
         /\ UNCHANGED <<PENDING, WAITING, files, now, ticks, call, nextJob, tasks, orphan, renders>>
    ELSE IF section = "logo"
    THEN /\ IF val \notin WATERMARKS
            THEN reply' = "unknown_logo" /\ PENDING' = PENDING
            ELSE reply' = "color_set" /\ PENDING' = [PENDING EXCEPT ![j].logo = val]
         /\ UNCHANGED <<WAITING, files, now, ticks, call, nextJob, tasks, orphan, renders>>
    ELSE IF section = "pos"
    THEN /\ IF val \notin Positions
            THEN reply' = "unknown_position" /\ PENDING' = PENDING
            ELSE reply' = "position_set" /\ PENDING' = [PENDING EXCEPT ![j].pos = val]
         /\ UNCHANGED <<WAITING, files, now, ticks, call, nextJob, tasks, orphan, renders>>
    ELSE IF section = "op" /\ val \in CuratedOpacity
    THEN /\ FreeSlots # {}
         /\ PENDING' = [PENDING EXCEPT ![j].opacity = float(val)]
         /\ tasks' = Put(tasks, NewSlot, [pc |-> "answer", user |-> u, job |-> j, type |-> None, msg |-> TRUE])
         /\ reply' = "opacity_set"
         /\ UNCHANGED <<WAITING, files, now, ticks, call, nextJob, orphan, renders>>
    ELSE IF section = "op" /\ val = "custom"
    THEN /\ WAITING' = Put(WAITING, u, j)
         /\ reply' = "send_a_number"
         /\ UNCHANGED <<PENDING, files, now, ticks, call, nextJob, tasks, orphan, renders>>
    ELSE /\ reply' = "unknown_action"
         /\ UNCHANGED <<PENDING, WAITING, files, now, ticks, call, nextJob, tasks, orphan, renders>>

\* ------------------------------------------------------------------ on_text
\* An on_text that also restarts the job's clock when it accepts a number.
on_text_refreshes_ts(u, text) ==
    IF u \notin DOMAIN WAITING
    THEN /\ reply' = ""
         /\ UNCHANGED <<PENDING, WAITING, files, now, ticks, call, nextJob, tasks, orphan, renders>>
    ELSE IF WAITING[u] \notin DOMAIN PENDING
    THEN /\ WAITING' = Remove(WAITING, u)
         /\ reply' = ""
         /\ UNCHANGED <<PENDING, files, now, ticks, call, nextJob, tasks, orphan, renders>>
    ELSE IF FirstDigits(text) = <<>>
    THEN /\ reply' = "send_number_like_65"
         /\ UNCHANGED <<PENDING, WAITING, files, now, ticks, call, nextJob, tasks, orphan, renders>>
    ELSE IF ~(10 <= int(FirstDigits(text)) /\ int(FirstDigits(text)) <= 100)
    THEN /\ reply' = "must_be_10_to_100"
         /\ UNCHANGED <<PENDING, WAITING, files, now, ticks, call, nextJob, tasks, orphan, renders>>
    ELSE LET j == WAITING[u]
             P == [PENDING EXCEPT ![j].opacity = int(FirstDigits(text)), ![j].ts = now]
         IN /\ WAITING' = Remove(WAITING, u)
            /\ IF MissingField(P[j]) # ""
               THEN /\ PENDING' = P
                    /\ reply' = ""
                    /\ UNCHANGED <<files, tasks, orphan, renders>>
               ELSE /\ FreeSlots # {}
                    /\ Render(NewSlot, j, P[j], FALSE, u, P)
            /\ UNCHANGED <<now, ticks, call, nextJob>>

on_text(u, text) ==
    IF u \notin DOMAIN WAITING
    THEN /\ reply' = ""
         /\ UNCHANGED <<PENDING, WAITING, files, now, ticks, call, nextJob, tasks, orphan, renders>>
    ELSE IF WAITING[u] \notin DOMAIN PENDING
    THEN /\ WAITING' = Remove(WAITING, u)
         /\ reply' = ""
         /\ UNCHANGED <<PENDING, files, now, ticks, call, nextJob, tasks, orphan, renders>>
    ELSE IF FirstDigits(text) = <<>>
    THEN /\ reply' = "send_number_like_65"
         /\ UNCHANGED <<PENDING, WAITING, files, now, ticks, call, nextJob, tasks, orphan, renders>>
    ELSE IF ~(10 <= int(FirstDigits(text)) /\ int(FirstDigits(text)) <= 100)
    THEN /\ reply' = "must_be_10_to_100"
         /\ UNCHANGED <<PENDING, WAITING, files, now, ticks, call, nextJob, tasks, orphan, renders>>
    ELSE LET j == WAITING[u]
             P == [PENDING EXCEPT ![j].opacity = int(FirstDigits(text))]
         IN /\ WAITING' = Remove(WAITING, u)
            /\ IF MissingField(P[j]) # ""
               THEN /\ PENDING' = P
                    /\ reply' = ""
                    /\ UNCHANGED <<files, tasks, orphan, renders>>
               ELSE /\ FreeSlots # {}
                    /\ Render(NewSlot, j, P[j], FALSE, u, P)
            /\ UNCHANGED <<now, ticks, call, nextJob>>

Next ==
    \/ Tick
    \/ \E u \in Users, big \in BOOLEAN : (big \/ nextJob <= MaxUploads) /\ handle_image(u, big)
    \/ \E u \in Users, big \in BOOLEAN : (big \/ nextJob <= MaxUploads) /\ handle_video(u, big)
    \/ \E t \in Slots : download_file(t)
    \/ \E t \in Slots : create_job(t)
    \/ \E u \in Users, j \in JobIds, cb \in Callbacks : on_job_callback(u, j, cb[1], cb[2])
    \/ \E u \in Users, text \in Texts : on_text(u, text)
    \/ \E t \in Slots : process_and_send(t)
    \/ \E t \in Slots : process_render(t)
    \/ \E t \in Slots : process_deliver(t)
    \/ \E t \in Slots : process_report(t)

Spec == Init /\ [][Next]_vars

\* --------------------------------------------------------------- two uploads
\* A second environment, with two jobs: alice sends an image, then bob sends
\* a video.  What starts a handler that suspends (an upload, a curated or a
\* typed opacity) arrives while no handler is suspended; cancel and the other
\* buttons the keyboards offer arrive at any time, from any user; an
\* oversized upload runs the sweep alone.
PairCallbacks == { <<"cancel", "">>, <<"logo", "white">>, <<"pos", "top">>, <<"op", "40">>, <<"op", "custom">> }
PairTexts == { <<"4", "0">> }
Idle == DOMAIN tasks = {}

NextPair ==
    \/ Tick
    \/ \E big \in BOOLEAN : (big \/ nextJob = 1) /\ Idle /\ handle_image("alice", big)
    \/ \E big \in BOOLEAN : (big \/ nextJob = 2) /\ Idle /\ handle_video("bob", big)
    \/ \E t \in Slots : download_file(t)
    \/ \E t \in Slots : create_job(t)
    \/ \E u \in Users, j \in JobIds, cb \in PairCallbacks :
          (cb[2] \in CuratedOpacity => Idle) /\ on_job_callback(u, j, cb[1], cb[2])
    \/ \E u \in Users, text \in PairTexts : Idle /\ on_text(u, text)
    \/ \E t \in Slots : process_and_send(t)
    \/ \E t \in Slots : process_render(t)
    \/ \E t \in Slots : process_deliver(t)
    \/ \E t \in Slots : process_report(t)

SpecPair == Init /\ [][NextPair]_vars

\* ------------------------------------------------------ the event loop thread
\* asyncio.run(main()) runs every handler on one thread.  process_and_send
\* calls paste_watermark_pillow / ffmpeg_overlay_video (subprocess.run) as
\* plain synchronous calls: from the call to its return the thread is inside
\* the render routine and the loop resumes no other handler.  This third
\* environment makes the call and the return two steps.
Busy == \E t \in DOMAIN tasks : tasks[t].pc = "rendering"

\* The render routine is called.
render_start(t) ==
    /\ t \in DOMAIN tasks
    /\ tasks[t].pc = "processing"
    /\ tasks' = [tasks EXCEPT ![t].pc = "rendering"]
    /\ UNCHANGED <<PENDING, WAITING, files, now, ticks, call, nextJob, orphan, renders, reply>>

\* The render routine returns or raises.
render_return(t) ==
    /\ t \in DOMAIN tasks
    /\ tasks[t].pc = "rendering"
    /\ Render(t, tasks[t].job, JobDict(tasks[t].job), tasks[t].msg, tasks[t].user, PENDING)
    /\ UNCHANGED <<WAITING, now, ticks, call, nextJob>>

NextLoop ==
    \/ \E big \in BOOLEAN : (big \/ nextJob = 1) /\ Idle /\ handle_image("alice", big)
    \/ \E big \in BOOLEAN : (big \/ nextJob = 2) /\ Idle /\ handle_video("bob", big)
    \/ \E t \in Slots : ~Busy /\ download_file(t)
    \/ \E t \in Slots : ~Busy /\ create_job(t)
    \/ \E u \in Users, j \in JobIds, cb \in PairCallbacks :
          ~Busy /\ (cb[2] \in CuratedOpacity => Idle) /\ on_job_callback(u, j, cb[1], cb[2])
    \/ \E u \in Users, text \in PairTexts : Idle /\ on_text(u, text)
    \/ \E t \in Slots : ~Busy /\ process_and_send(t)
    \/ \E t \in Slots : ~Busy /\ render_start(t)
    \/ \E t \in Slots : render_return(t)
    \/ \E t \in Slots : ~Busy /\ process_deliver(t)
    \/ \E t \in Slots : ~Busy /\ process_report(t)

SpecLoop == Init /\ [][NextLoop]_vars

\* -------------------------------------------------------- the pure helpers
\* SCALE and PAD_FRAC are 0.98 and 0.02, kept here in hundredths; for the
\* sizes below int(n * 0.98) and int(n * 0.02) are the floors taken here.
SCALE == 98
PAD_FRAC == 2
MIN_PAD == 6
margin == 20

Max(a, b) == IF a >= b THEN a ELSE b
Min(a, b) == IF a <= b THEN a ELSE b

\* round() of the fraction n/d, d > 0: the nearest integer, a tie going to
\* the even one.
round(n, d) ==
    LET q == n \div d
        r == n % d
    IN IF 2 * r > d \/ (2 * r = d /\ q % 2 = 1) THEN q + 1 ELSE q

\* int(255 * pct / 100) in place of int(round(...)).
percent_to_alpha255_truncates(pct) == (255 * Max(0, Min(100, pct))) \div 100

percent_to_alpha255(pct) == round(255 * Max(0, Min(100, pct)), 100)

\* Returns <<x, y>>.
compute_xy_for_position(img_w, img_h, logo_w, logo_h, pos_key) ==
    LET x == (img_w - logo_w) \div 2
        y == IF pos_key = "top" THEN margin
             ELSE IF pos_key = "mid" THEN (img_h - logo_h) \div 2
             ELSE img_h - logo_h - margin
    IN <<x, Max(0, y)>>

\* The asset files that exist are `present`; returns the key of the asset.
ensure_logo(key, present) ==
    IF key \in WATERMARKS /\ key \in present THEN key ELSE "white"

\* paste_watermark_pillow's target width for a source of width w.
target_w(w) == Max(1, (w * SCALE) \div 100)

\* build_logo_card_from_png for a logo of native size lw x lh (ALLOW_UPSCALE
\* on): <<card_w, card_h>> of the padded card.
build_logo_card_from_png(lw, lh, tw) ==
    LET rw == Max(1, (lw * tw) \div Max(1, lw))
        rh == Max(1, (lh * tw) \div Max(1, lw))
        pad == Max(MIN_PAD, (tw * PAD_FRAC) \div 100)
    IN <<rw + 2 * pad, rh + 2 * pad>>

\* build_logo_card: the asset ensure_logo names is opened; Image.open raises
\* when the file does not exist.
build_logo_card(wm_key, present) ==
    LET asset == ensure_logo(wm_key, present)
    IN <<asset, IF asset \in present THEN "ok" ELSE "error">>

\* ffmpeg_overlay_video's probe: the width ffprobe printed, or 0 when ffprobe
\* failed or printed nothing that int() takes (ran = FALSE).
vid_w(ran, printed) == IF ran THEN printed ELSE 0

\* ffmpeg_overlay_video's target width for a probed width v.
ffmpeg_overlay_video_target_w(v) ==
    IF v > 0 THEN Max(320, (v * SCALE) \div 100) ELSE 640

\* Widths ffprobe can print for a video.
VideoWidths == {0 - 1, 0, 1, 100, 326, 327, 640, 1920}

\* Inputs of the helper calls.
Widths == {1, 50, 100, 640, 1000}
Heights == {1, 40, 100, 480}
Logos == { <<400, 100>>, <<512, 512>> }
Overlays(w) ==
    {build_logo_card_from_png(l[1], l[2], target_w(w)) : l \in Logos}
        \cup ({10, 60, 120} \X {10, 60, 120})
Percents == (0 - 5)..MaxPercent

Calls ==
    {[fn |-> "compute_xy_for_position", args |-> <<w, h, o[1], o[2], pos>>, out |-> <<>>] :
        w \in Widths, h \in Heights, o \in UNION {Overlays(v) : v \in Widths}, pos \in Positions}
    \cup {[fn |-> "percent_to_alpha255", args |-> <<pct>>, out |-> <<>>] : pct \in Percents}
    \cup {[fn |-> "build_logo_card", args |-> <<key, present>>, out |-> <<>>] :
            key \in WATERMARKS, present \in SUBSET WATERMARKS}
    \cup {[fn |-> "ffmpeg_overlay_video", args |-> <<ran, printed>>, out |-> <<>>] :
            ran \in BOOLEAN, printed \in VideoWidths}

InitCalls ==
    /\ PENDING = <<>>
    /\ WAITING = <<>>
    /\ files = {}
    /\ now = 0
    /\ ticks = 0
    /\ nextJob = 1
    /\ tasks = <<>>
    /\ orphan = <<>>
    /\ renders = [j \in JobIds |-> 0]
    /\ reply = ""
    /\ call \in Calls

Returns(fn, out) ==
    /\ call.fn = fn
    /\ call.out = <<>>
    /\ call' = [call EXCEPT !.out = out]
    /\ UNCHANGED <<PENDING, WAITING, files, now, ticks, nextJob, tasks, orphan, renders, reply>>

call_compute_xy_for_position ==
    Returns("compute_xy_for_position",
            compute_xy_for_position(call.args[1], call.args[2], call.args[3], call.args[4], call.args[5]))

call_percent_to_alpha255 ==
    Returns("percent_to_alpha255", <<percent_to_alpha255(call.args[1])>>)

call_build_logo_card ==
    Returns("build_logo_card", build_logo_card(call.args[1], call.args[2]))

\* ffmpeg_overlay_video up to build_logo_card: <<vid_w, target_w>>.
call_ffmpeg_overlay_video ==
    Returns("ffmpeg_overlay_video",
            <<vid_w(call.args[1], call.args[2]),
              ffmpeg_overlay_video_target_w(vid_w(call.args[1], call.args[2]))>>)

NextCalls ==
    \/ call_compute_xy_for_position
    \/ call_percent_to_alpha255
    \/ call_build_logo_card
    \/ call_ffmpeg_overlay_video

SpecCalls == InitCalls /\ [][NextCalls]_vars

\* ================================================================== claims
\* The upload of job j has completed (PENDING[j] was assigned at some point).
Created(j) ==
    /\ j < nextJob
    /\ \A t \in DOMAIN tasks : ~(tasks[t].job = j /\ tasks[t].pc \in {"get_file", "download_file"})

\* A process_and_send for job j has passed its checks and has not returned.
Rendering(j) == Holders(tasks, j) # {}

\* A process_and_send for job j is about to run its checks or its render.
RenderPending(j) ==
    \E t \in DOMAIN tasks : tasks[t].job = j /\ tasks[t].pc \in {"answer", "processing"}

\* The three choices of a job dict are all set.
Renderable(jd) == jd.logo # None /\ jd.pos # None /\ jd.opacity # NoOpacity

\* Job j is at least JOB_TTL_SECS old.
Expired(j) == now - PENDING[j].ts >= JOB_TTL_SECS

\* on_text(u, text) reaches `job["opacity"] = float(val)`.
TextAccepted(u, text) ==
    /\ u \in DOMAIN WAITING
    /\ WAITING[u] \in DOMAIN PENDING
    /\ FirstDigits(text) # <<>>
    /\ 10 <= int(FirstDigits(text)) /\ int(FirstDigits(text)) <= 100

\* The job a temporary file belongs to, and: no file of a created job is on
\* disk without that job in the store.
FileJob(f) == IF f[1] = "src" THEN f[2] ELSE tasks[f[2]].job
NoFileOutlivesJob == \A f \in files : Created(FileJob(f)) => FileJob(f) \in DOMAIN PENDING

\* The step leaves job j as it was for user u: same dict, no wait armed for
\* it, no render and no new or advanced handler of it.
Rejected(u, j) ==
    /\ j \in DOMAIN PENDING'
    /\ PENDING'[j] = PENDING[j]
    /\ u \in DOMAIN WAITING' => WAITING'[u] # j
    /\ renders'[j] = renders[j]
    /\ \A t \in DOMAIN tasks' : tasks'[t].job = j => t \in DOMAIN tasks /\ tasks[t] = tasks'[t]

\* After the step job j is out of the store and neither its source nor the
\* output of slot t is on disk.
TornDown(t, j) ==
    /\ j \notin DOMAIN PENDING'
    /\ Src(j) \notin files'
    /\ Dst(t) \notin files'

\* C1: a cancel callback from a user who does not own job j fails with
\* NotOwner: j stays in the store with every field unchanged and its source
\* file stays on disk.
C1_CancelByNonOwnerRejected ==
    [][\A u \in Users, j \in DOMAIN PENDING :
          (u # PENDING[j].user_id /\ on_job_callback(u, j, "cancel", ""))
              => /\ j \in DOMAIN PENDING'
                 /\ PENDING'[j] = PENDING[j]
                 /\ (Src(j) \in files => Src(j) \in files')
                 /\ reply' = "not_your_job"]_vars

\* C2: the render routine is invoked for a job only when its logo, position
\* and opacity are all set; process_and_send entered on a job with one of
\* them unset renders nothing, keeps the job and reports the missing field.
C2_RenderOnlyWhenRenderable ==
    [][/\ \A j \in JobIds :
            renders'[j] > renders[j]
                => /\ JobDict(j).logo # None
                   /\ JobDict(j).pos # None
                   /\ \/ JobDict(j).opacity # NoOpacity
                      \/ \E u \in Users, text \in Texts :
                            TextAccepted(u, text) /\ WAITING[u] = j /\ on_text(u, text)
       /\ \A t \in DOMAIN tasks :
            (/\ process_and_send(t)
             /\ tasks[t].job \in DOMAIN PENDING
             /\ ~Renderable(PENDING[tasks[t].job]))
                => /\ renders' = renders
                   /\ tasks[t].job \in DOMAIN PENDING'
                   /\ reply' = MissingField(PENDING[tasks[t].job])
       /\ \A u \in Users, text \in Texts :
            (/\ TextAccepted(u, text)
             /\ on_text(u, text)
             /\ (PENDING[WAITING[u]].logo = None \/ PENDING[WAITING[u]].pos = None))
                => /\ renders' = renders
                   /\ WAITING[u] \in DOMAIN PENDING'
                   /\ reply' = MissingField(PENDING[WAITING[u]])]_vars

\* C3: the render routine is started at most once for a job id, under every
\* interleaving of the handlers.
C3_AtMostOneRenderPerJob == \A j \in JobIds : renders[j] <= 1

\* C4: from 15 minutes after its creation on, a job is treated as absent: no
\* handler step changes a field of it or renders it, and a sweep (the start
\* of an upload handler) leaves no source file of it on disk.
C4_ExpiredJobIsAbsent ==
    [][\A j \in DOMAIN PENDING :
          Expired(j)
              => /\ j \in DOMAIN PENDING' => PENDING'[j] = PENDING[j]
                 /\ renders'[j] = renders[j]
                 /\ (\E u \in Users, big \in BOOLEAN : handle_image(u, big) \/ handle_video(u, big))
                        => Src(j) \notin files']_vars

\* C5: at every point where the handlers are suspended or idle, every
\* temporary file on disk belongs to a job that is still in the store; and
\* every removal of a job from the store deletes its source file.
C5_NoFileOutlivesJob ==
    [][/\ NoFileOutlivesJob'
       /\ \A j \in DOMAIN PENDING \ DOMAIN PENDING' : Src(j) \notin files']_vars

\* C6: a job in the store with all three choices set has a render started or
\* pending; none waits for a further choice.
C6_RenderableJobIsRendered ==
    \A j \in DOMAIN PENDING :
        Renderable(PENDING[j]) => renders[j] > 0 \/ RenderPending(j)

\* C7: a logo, position or opacity callback, or a text message, from a user
\* who does not own job j changes no field of j, arms no custom-opacity wait
\* for j and starts no process_and_send or render of j.
C7_SetFieldByNonOwnerRejected ==
    [][\A u \in Users, j \in DOMAIN PENDING :
          u # PENDING[j].user_id
              => /\ \A cb \in Callbacks :
                       (cb[1] # "cancel" /\ on_job_callback(u, j, cb[1], cb[2])) => Rejected(u, j)
                 /\ \A text \in Texts : on_text(u, text) => Rejected(u, j)]_vars

\* C7 witness: a callback was just answered "Not your job." while a job that
\* still awaits choices is in the store.
C7_Witness ==
    /\ reply = "not_your_job"
    /\ \E j \in DOMAIN PENDING : ~Renderable(PENDING[j]) /\ renders[j] = 0

\* C8: when a process_and_send that started a render of job j returns, after
\* success, a non-zero exit of ffmpeg or any other exception, j is not in the
\* store and neither its source file nor the output file is on disk.
C8_RenderAlwaysTearsDown ==
    [][/\ \A t \in DOMAIN tasks \ DOMAIN tasks' :
            tasks[t].pc \in {"deliver", "report_ffmpeg", "report_error"} => TornDown(t, tasks[t].job)
       /\ \A j \in JobIds :
            (renders'[j] > renders[j] /\ tasks' = tasks) => TornDown(NewSlot, j)]_vars

\* C8 witness: job 1 was rendered once, ffmpeg failed, the failure was
\* reported and process_and_send has returned.
C8_Witness ==
    /\ reply = "ffmpeg_failed"
    /\ renders[1] = 1
    /\ 1 \notin DOMAIN PENDING
    /\ tasks = <<>>

\* C9: choices are accepted only in the order logo, position, opacity: no job
\* has a position without a logo, or an opacity without a logo and a position.
C9_FixedFieldOrder ==
    \A j \in DOMAIN PENDING :
        /\ PENDING[j].pos # None => PENDING[j].logo # None
        /\ PENDING[j].opacity # NoOpacity => PENDING[j].logo # None /\ PENDING[j].pos # None

\* C10: once process_and_send has passed its checks for job j, a cancel
\* callback removes neither j from the store nor its source file from disk.
C10_NoCancelOnceRendering ==
    [][\A j \in DOMAIN PENDING, u \in Users :
          (Rendering(j) /\ on_job_callback(u, j, "cancel", ""))
              => /\ j \in DOMAIN PENDING'
                 /\ (Src(j) \in files => Src(j) \in files')]_vars

\* C11: the sweep that opens an upload handler removes every job older than
\* JOB_TTL_SECS together with its source file, and leaves every job aged at
\* most JOB_TTL_SECS in the store with the same fields and the same source
\* file on disk.
C11_SweepRemovesExactlyExpired ==
    [][(\E u \in Users, big \in BOOLEAN : handle_image(u, big) \/ handle_video(u, big))
          => \A j \in DOMAIN PENDING :
                IF now - PENDING[j].ts > JOB_TTL_SECS
                THEN j \notin DOMAIN PENDING' /\ Src(j) \notin files'
                ELSE /\ j \in DOMAIN PENDING'
                     /\ PENDING'[j] = PENDING[j]
                     /\ (Src(j) \in files <=> Src(j) \in files')]_vars

\* C11 witness: an oversized upload has just swept at a time when job 1 (made
\* at 0) was older than the TTL and job 2 was not: job 1 and its file are
\* gone, job 2 is kept untouched with its file.
C11_Witness ==
    /\ reply = "too_large"
    /\ now > JOB_TTL_SECS
    /\ nextJob > 2
    /\ 1 \notin DOMAIN PENDING /\ Src(1) \notin files /\ renders[1] = 0
    /\ 2 \in DOMAIN PENDING /\ now - PENDING[2].ts <= JOB_TTL_SECS /\ Src(2) \in files

\* The text is a decimal numeral; int(text) is then the number it denotes.
Numeral(text) == text # <<>> /\ \A i \in 1..Len(text) : text[i] \in Digits

\* The value of a callback lies outside the domain of the field it names.
InvalidValue(section, val) ==
    \/ section = "logo" /\ val \notin WATERMARKS
    \/ section = "pos" /\ val \notin Positions
    \/ section = "op" /\ val \notin CuratedOpacity \cup {"custom"}

\* C12: a callback whose value is outside its field's domain, and a typed
\* opacity denoting a number outside [10,100], change no field of any job;
\* every job's logo is unset or a known variant, its position unset or one of
\* the three anchors, its opacity unset or a number in [10,100].
C12_InvalidValueRejected ==
    [][/\ \A u \in Users, j \in DOMAIN PENDING, cb \in Callbacks :
            (InvalidValue(cb[1], cb[2]) /\ on_job_callback(u, j, cb[1], cb[2])) => PENDING' = PENDING
       /\ \A u \in Users, text \in Texts :
            (/\ Numeral(text)
             /\ ~(10 <= int(text) /\ int(text) <= 100)
             /\ on_text(u, text)) => PENDING' = PENDING
       /\ \A j \in DOMAIN PENDING' :
            /\ PENDING'[j].logo \in WATERMARKS \cup {None}
            /\ PENDING'[j].pos \in Positions \cup {None}
            /\ PENDING'[j].opacity \in (10..100) \cup {NoOpacity}]_vars

\* The fields of a job dict, and the field a callback section assigns.
Fields == {"user_id", "type", "ts", "logo", "pos", "opacity"}
FieldOf(section) == IF section = "op" THEN "opacity" ELSE section

\* The step changes nothing in the store but field f of job j.
OnlyField(j, f) ==
    /\ DOMAIN PENDING' = DOMAIN PENDING
    /\ \A k \in DOMAIN PENDING, g \in Fields : (k # j \/ g # f) => PENDING'[k][g] = PENDING[k][g]

\* C13: a successful logo, position or opacity choice assigns the chosen
\* value to that field of the job and changes no other field of it, no field
\* of any other job and no source file; a typed opacity does the same, the
\* job leaving the store only when the render it starts has ended at once.
C13_SetFieldChangesOnlyItsField ==
    [][/\ \A u \in Users, j \in DOMAIN PENDING, cb \in PairCallbacks :
            (/\ u = PENDING[j].user_id
             /\ cb[1] \in {"logo", "pos", "op"} /\ cb[2] # "custom" /\ ~InvalidValue(cb[1], cb[2])
             /\ on_job_callback(u, j, cb[1], cb[2]))
                => /\ OnlyField(j, FieldOf(cb[1]))
                   /\ PENDING'[j][FieldOf(cb[1])] = (IF cb[1] = "op" THEN float(cb[2]) ELSE cb[2])
                   /\ files' = files
       /\ \A u \in Users, text \in PairTexts :
            (TextAccepted(u, text) /\ on_text(u, text))
                => LET j == WAITING[u]
                   IN /\ \A k \in DOMAIN PENDING \ {j} :
                            /\ k \in DOMAIN PENDING' /\ PENDING'[k] = PENDING[k]
                            /\ (Src(k) \in files <=> Src(k) \in files')
                      /\ IF j \in DOMAIN PENDING'
                         THEN /\ OnlyField(j, "opacity")
                              /\ PENDING'[j].opacity = int(FirstDigits(text))
                              /\ (Src(j) \in files <=> Src(j) \in files')
                         ELSE renders'[j] = renders[j] + 1]_vars

\* C13 witness: bob's position choice for job 2 was just accepted while
\* alice's job 1, with a logo and no position, is in the store.
C13_Witness ==
    /\ reply = "position_set"
    /\ DOMAIN PENDING = {1, 2}
    /\ PENDING[2].pos = "top" /\ PENDING[2].logo = None
    /\ PENDING[1].pos = None /\ PENDING[1].logo = "white"

\* The step is a failure of the render or delivery of job a: the render
\* routine raised, ffmpeg exited non-zero, the send raised, or the failure is
\* reported and the `finally` runs.
FailureStep(a) ==
    \/ \E t \in DOMAIN tasks :
          /\ tasks[t].job = a
          /\ process_render(t) \/ process_deliver(t) \/ process_report(t)
          /\ reply' # "watermarked"
          /\ ~(t \in DOMAIN tasks' /\ tasks'[t].pc = "deliver")
    \/ \E u \in Users, text \in PairTexts :
          /\ TextAccepted(u, text) /\ WAITING[u] = a
          /\ on_text(u, text)
          /\ a \notin DOMAIN PENDING'

\* C14: a failure in the render of job a (an exception of the render
\* routine, a non-zero exit of ffmpeg, a failed send) ends inside
\* process_and_send and leaves every other job b in the store with the same
\* fields and the same source file.
C14_ErrorsLocalToOneJob ==
    [][\A a \in JobIds :
          FailureStep(a)
              => \A b \in DOMAIN PENDING \ {a} :
                    /\ b \in DOMAIN PENDING'
                    /\ PENDING'[b] = PENDING[b]
                    /\ (Src(b) \in files <=> Src(b) \in files')]_vars

\* C14 witness: ffmpeg failed on bob's video (job 2), the failure was
\* reported and the job torn down, while alice's job 1 is still in the store
\* with its source file.
C14_Witness ==
    /\ reply = "ffmpeg_failed"
    /\ renders[2] = 1 /\ 2 \notin DOMAIN PENDING /\ Src(2) \notin files
    /\ 1 \in DOMAIN PENDING /\ Src(1) \in files
    /\ tasks = <<>>

\* The loop handles a button press (a choice or a cancel) for a job other
\* than a.
EventForOther(a) ==
    /\ ~Busy
    /\ \E u \in Users, j \in DOMAIN PENDING \ {a}, cb \in PairCallbacks :
          on_job_callback(u, j, cb[1], cb[2])

\* C15: while the render routine is running for job a (called and not yet
\* returned), a button press for another job in the store can be handled.
C15_RenderDoesNotStallOthers ==
    \A t \in DOMAIN tasks :
        (tasks[t].pc = "rendering" /\ DOMAIN PENDING \ {tasks[t].job} # {})
            => ENABLED EventForOther(tasks[t].job)

\* The helper fn has returned.
Returned(fn) == call.fn = fn /\ call.out # <<>>

\* C16: compute_xy_for_position returns x = (W - w) / 2 and y = margin (top),
\* (H - h) / 2 (mid) or H - h - margin (bot), each clamped to be >= 0, for
\* every source W x H and overlay w x h, the padded card built for the
\* source's own width included.
C16_OriginCentredAndClamped ==
    Returned("compute_xy_for_position")
        => LET W == call.args[1]
               H == call.args[2]
               w == call.args[3]
               h == call.args[4]
               pos == call.args[5]
               x == call.out[1]
               y == call.out[2]
           IN /\ x >= 0 /\ y >= 0
              /\ w <= W => x = (W - w) \div 2
              /\ pos = "top" => y = margin
              /\ (pos = "mid" /\ h <= H) => y = (H - h) \div 2
              /\ (pos = "bot" /\ h + margin <= H) => y = H - h - margin

\* C17: for an integer opacity p in [10,100] percent_to_alpha255(p) is the
\* integer nearest to 255*p/100 (a tie going to the even neighbour, as round
\* does), it is not below the value for any smaller p in [10,100], and it is
\* 26 for p = 10 and 255 for p = 100.
C17_AlphaIsRounded ==
    (Returned("percent_to_alpha255") /\ call.args[1] \in 10..100)
        => LET p == call.args[1]
               a == call.out[1]
               d == IF 100 * a >= 255 * p THEN 100 * a - 255 * p ELSE 255 * p - 100 * a
           IN /\ 2 * d <= 100
              /\ 2 * d = 100 => a % 2 = 0
              /\ \A q \in 10..p : percent_to_alpha255(q) <= a
              /\ p = 10 => a = 26
              /\ p = 100 => a = 255

\* C17 witness: the call for p = 30, where 255*p/100 = 76.5 lies halfway,
\* has returned 76.
C17_Witness ==
    /\ Returned("percent_to_alpha255")
    /\ call.args = <<30>>
    /\ call.out = <<76>>

\* C18: a job that was in the store and has left it (cancel, render end or
\* sweep) never enters it again, and whatever names it afterwards (a button
\* press, a typed opacity through a WAITING entry left behind, a
\* process_and_send) changes no job and starts no render of it.
C18_NoJobRevived ==
    [][\A j \in JobIds :
          (Created(j) /\ j \notin DOMAIN PENDING)
              => /\ j \notin DOMAIN PENDING'
                 /\ renders'[j] = renders[j]
                 /\ (\E u \in Users, cb \in Callbacks : on_job_callback(u, j, cb[1], cb[2]))
                        => PENDING' = PENDING
                 /\ (\E u \in Users, text \in Texts :
                        u \in DOMAIN WAITING /\ WAITING[u] = j /\ on_text(u, text))
                        => PENDING' = PENDING
                 /\ (\E t \in DOMAIN tasks :
                        /\ tasks[t].job = j
                        /\ process_and_send(t) \/ process_render(t) \/ process_deliver(t) \/ process_report(t))
                        => PENDING' = PENDING]_vars

\* The text denotes a number in [10,100].
ValidOpacity(text) == Numeral(text) /\ 10 <= int(text) /\ int(text) <= 100

\* C19: the owner's 'custom' choice arms the wait for that user and job; the
\* user's reply denoting a number in [10,100] sets the job's opacity to it,
\* starts the render when logo and position are set, and disarms the wait; a
\* text from a user with no wait armed changes no job; a reply that is not a
\* number or is out of range leaves the job unchanged and the wait armed.
C19_CustomOpacityWaitIsOneShot ==
    [][/\ \A u \in Users, j \in DOMAIN PENDING :
            (u = PENDING[j].user_id /\ on_job_callback(u, j, "op", "custom"))
                => u \in DOMAIN WAITING' /\ WAITING'[u] = j /\ PENDING' = PENDING
       /\ \A u \in DOMAIN WAITING, text \in Texts :
            (WAITING[u] \in DOMAIN PENDING /\ on_text(u, text))
                => LET j == WAITING[u]
                   IN IF ValidOpacity(text)
                      THEN /\ u \notin DOMAIN WAITING'
                           /\ j \in DOMAIN PENDING' => PENDING'[j].opacity = int(text)
                           /\ renders'[j] = IF PENDING[j].logo # None /\ PENDING[j].pos # None
                                            THEN renders[j] + 1 ELSE renders[j]
                      ELSE PENDING' = PENDING /\ WAITING' = WAITING /\ renders' = renders
       /\ \A u \in Users \ DOMAIN WAITING, text \in Texts :
            on_text(u, text) => PENDING' = PENDING /\ renders' = renders /\ WAITING' = WAITING]_vars

\* C20: whichever asset files are missing, the render gets a logo: when the
\* chosen variant's file is absent ensure_logo names the white variant, and
\* opening the asset it names succeeds.
C20_MissingAssetNeverFails ==
    Returned("build_logo_card")
        => LET key == call.args[1]
               present == call.args[2]
           IN /\ key \notin present => call.out[1] = "white"
              /\ call.out[2] = "ok"

\* C21: for a probed width W > 0 the video path's target width is the raster
\* path's target width for a source of width W; when the probe fails or
\* yields a width <= 0 the target width is 640.
C21_VideoTargetWidthAsRaster ==
    Returned("ffmpeg_overlay_video")
        => /\ call.out[1] > 0 => call.out[2] = target_w(call.out[1])
           /\ call.out[1] <= 0 => call.out[2] = 640

\* Every armed wait that names a job in the store names a job of that user.
WaitsPointAtOwnJobs ==
    \A u \in DOMAIN WAITING :
        WAITING[u] \in DOMAIN PENDING => PENDING[WAITING[u]].user_id = u

\* C22: WAITING[u] = j with j in the store only when u owns j, after every
\* step; and no text message changes or renders a job its sender does not
\* own.
C22_WaitPointsAtOwnJob ==
    [][/\ WaitsPointAtOwnJobs'
       /\ \A u \in Users, text \in PairTexts :
            on_text(u, text)
                => \A j \in DOMAIN PENDING :
                      u # PENDING[j].user_id
                          => /\ j \in DOMAIN PENDING' /\ PENDING'[j] = PENDING[j]
                             /\ renders'[j] = renders[j]]_vars

\* C22 witness: both users have pressed 'Custom…' on their own jobs; each
\* wait names its user's job, and both jobs are in the store.
C22_Witness ==
    /\ reply = "send_a_number"
    /\ DOMAIN PENDING = {1, 2}
    /\ DOMAIN WAITING = Users
    /\ WAITING["alice"] = 1 /\ WAITING["bob"] = 2
====
